---- MODULE Spec2Model ----
(***************************************************************************)
(* Strategy layer of the micromouse: flood-fill planner (floodfill),       *)
(* next-cell selector (chooseNextCell), coordinate map and the strategy()  *)
(* orchestrator of micromouse_main/src/strategy/strategy.cpp.              *)
(*                                                                         *)
(* Units.  Lengths are integer millimetres.  A wall's `exists` is kept in  *)
(* tenths, so 0.5 is 5 and 1.0 is 10.                                      *)
(*                                                                         *)
(* Builds.  MAZE_WIDTH, MAZE_HEIGHT and the goal cell are compile-time     *)
(* settings.  They are the variables width, height and goal_cell, fixed by *)
(* Init: the reference build (16 x 16, goal (7,7)) runs on the scenario    *)
(* mazes, and a reduced build (GridW x GridH, goal scaled in proportion)   *)
(* runs on every maze with at most MaxClosed walls believed present.       *)
(*                                                                         *)
(* Specifications.  Spec: calls of strategy() with the robot in the maze,  *)
(* each call one step.  SpecOutOfMaze: the same with poses outside the     *)
(* maze as well.  SpecMapping: the same with the mapping subsystem         *)
(* revising the walls around the goal between calls.  SpecFlood: calls of  *)
(* floodfill, each iteration of its loop one step; SpecFloodFair adds that *)
(* a call once started is run on.  SpecRun: runs in which the robot is at  *)
(* the target pose of the call before.  SpecMovement: calls of             *)
(* calculateSpeed of movement.cpp.                                         *)
(***************************************************************************)
EXTENDS Integers, Sequences, FiniteSets, TLC

VARIABLES
    width,            \* MAZE_WIDTH of the build
    height,           \* MAZE_HEIGHT of the build
    goal_cell,        \* global goal_cell
    maze_state,       \* probabilistic_maze_t: wall -> exists (tenths)
    values,           \* global values[MAZE_WIDTH][MAZE_HEIGHT]
    discovered,       \* global discovered[MAZE_WIDTH][MAZE_HEIGHT]
    prev_next_cell,   \* static prev_next_cell of strategy()
    led1,             \* LED 1 (setHighLED(1))
    led2,             \* LED 2 (toggleLED(2))
    robot_location,   \* argument robot_location of the last strategy() call
    next_location,    \* output argument next_location
    robot_cell,       \* local robot_cell of the last strategy() call
    next_cell,        \* local next_cell of the last strategy() call
    oscillation_hint, \* the last strategy() call ran toggleLED(2)
    arrival_hint,     \* the last strategy() call ran setHighLED(1)
    oob_reads,        \* out-of-grid indices of values[][] the last call read
    loop,             \* locals of floodfill: [q, next_q, value, pops]
    run,              \* the run the robot is on: [start, calls], the cell it
                      \* started in and the calls of strategy() made since
    movement,         \* movement.cpp: global prev_location, and of the last
                      \* calculateSpeed call the arguments, currentState,
                      \* direction, intermediate_location and the speeds
    op                \* the last operation: "boot", "initializeStrategy",
                      \* "strategy", "mapping", or a position in floodfill

vars == <<width, height, goal_cell, maze_state, values, discovered,
          prev_next_cell, led1, led2, robot_location, next_location,
          robot_cell, next_cell, oscillation_hint, arrival_hint, oob_reads,
          loop, run, movement, op>>

(***************************************************************************)
(* settings.h                                                              *)
(***************************************************************************)
MAZE_SIZE == 16
MAZE_WIDTH == MAZE_SIZE
MAZE_HEIGHT == MAZE_SIZE
WALL_THICKNESS == 12
CELL_LENGTH == 168
GOAL_CELL_X == 7
GOAL_CELL_Y == 7
\* 0.5, in tenths
WALL_THRESHOLD == 5
MAX_VALUE == 999

(***************************************************************************)
(* Bounds of the reduced build and of the inputs                           *)
(***************************************************************************)
\* the reduced build: MAZE_SIZE scaled down to 3 x 3
GridW == MAZE_WIDTH \div 5
GridH == MAZE_HEIGHT \div 5
\* the most walls believed present in a maze of the reduced build
MaxClosed == 2
\* the most calls of strategy() a run is followed for
MaxCalls == 18

\* exists of a wall believed absent and the levels of a wall believed present
\* (exactly at the threshold, and certain), in tenths
OpenLevel == 0
CertainLevel == 10
ClosedLevels == {WALL_THRESHOLD, CertainLevel}

\* what a read of values[][] outside the array may yield
Garbage == {0, MAX_VALUE}
\* what a read of exists through a pointer outside cells[][] may yield
WallGarbage == {OpenLevel, CertainLevel}

(***************************************************************************)
(* Cells and directions                                                    *)
(***************************************************************************)
Cell(cx, cy) == [x |-> cx, y |-> cy]

Cells == {Cell(cx, cy) : cx \in 0 .. width - 1, cy \in 0 .. height - 1}

IS_CELL_OUT_OF_BOUNDS(cell) ==
    cell.x < 0 \/ cell.x >= width \/ cell.y < 0 \/ cell.y >= height

\* North(0, -1), East(1, 0), South(0, 1), West(-1, 0)
Directions == <<"North", "East", "South", "West">>

Neighbour(cell, dir) ==
    CASE dir = "North" -> Cell(cell.x, cell.y - 1)
      [] dir = "East"  -> Cell(cell.x + 1, cell.y)
      [] dir = "South" -> Cell(cell.x, cell.y + 1)
      [] dir = "West"  -> Cell(cell.x - 1, cell.y)

(***************************************************************************)
(* The maze: shared wall records.  A horizontal wall <<"h", x, y>> is the  *)
(* north wall of cell (x,y) and the south wall of (x,y-1); a vertical wall *)
(* <<"v", x, y>> is the west wall of (x,y) and the east wall of (x-1,y).   *)
(***************************************************************************)
Walls ==
    {<<"h", cx, cy>> : cx \in 0 .. width - 1, cy \in 0 .. height}
    \cup {<<"v", cx, cy>> : cx \in 0 .. width, cy \in 0 .. height - 1}

IsBorderWall(w) ==
    \/ w[1] = "h" /\ w[3] \in {0, height}
    \/ w[1] = "v" /\ w[2] \in {0, width}

BorderWalls == {w \in Walls : IsBorderWall(w)}

InteriorWalls == Walls \ BorderWalls

WallOf(cell, dir) ==
    CASE dir = "North" -> <<"h", cell.x, cell.y>>
      [] dir = "East"  -> <<"v", cell.x + 1, cell.y>>
      [] dir = "South" -> <<"h", cell.x, cell.y + 1>>
      [] dir = "West"  -> <<"v", cell.x, cell.y>>

\* maze_state->cells[x][y].<dir>->exists
WallExists(maze, cell, dir) == maze[WallOf(cell, dir)]

(***************************************************************************)
(* resetValues, setAllDiscoveredToFalse                                    *)
(***************************************************************************)
resetValues == [c \in Cells |-> MAX_VALUE]

setAllDiscoveredToFalse == [c \in Cells |-> FALSE]

(***************************************************************************)
(* floodfill.  A loop state is                                             *)
(*   [q, next_q, value, values, discovered, pops]                          *)
(* where pops counts the cells popped so far.                              *)
(***************************************************************************)
\* FloodStart without the call of setAllDiscoveredToFalse
FloodStartKeepsDiscovered(cell, value) ==
    [q          |-> <<cell>>,
     next_q     |-> <<>>,
     value      |-> value,
     values     |-> resetValues,
     discovered |-> [discovered EXCEPT ![cell] = TRUE],
     pops       |-> 0]

\* the state when the while loop is first reached
FloodStart(cell, value) ==
    [q          |-> <<cell>>,
     next_q     |-> <<>>,
     value      |-> value,
     values     |-> resetValues,
     discovered |-> [setAllDiscoveredToFalse EXCEPT ![cell] = TRUE],
     pops       |-> 0]

\* FloodProbe comparing exists with <= instead of <
FloodProbeThresholdOpen(maze, st, cell, dir) ==
    LET next == Neighbour(cell, dir) IN
    IF ~IS_CELL_OUT_OF_BOUNDS(next)
    THEN IF ~st.discovered[next] /\ WallExists(maze, cell, dir) <= WALL_THRESHOLD
         THEN [st EXCEPT !.discovered[next] = TRUE,
                         !.next_q = Append(@, next)]
         ELSE st
    ELSE st

\* FloodProbe pushing the neighbour without marking it discovered
FloodProbeNoMark(maze, st, cell, dir) ==
    LET next == Neighbour(cell, dir) IN
    IF ~IS_CELL_OUT_OF_BOUNDS(next)
    THEN IF ~st.discovered[next] /\ WallExists(maze, cell, dir) < WALL_THRESHOLD
         THEN [st EXCEPT !.next_q = Append(@, next)]
         ELSE st
    ELSE st

\* FloodProbe reading the neighbour's wall record instead of the popped cell's
FloodProbeWrongWall(maze, st, cell, dir) ==
    LET next == Neighbour(cell, dir) IN
    IF ~IS_CELL_OUT_OF_BOUNDS(next)
    THEN IF ~st.discovered[next] /\ WallExists(maze, next, dir) < WALL_THRESHOLD
         THEN [st EXCEPT !.discovered[next] = TRUE,
                         !.next_q = Append(@, next)]
         ELSE st
    ELSE st

\* FloodProbe pushing the neighbour onto q instead of next_q
FloodProbeSameLevel(maze, st, cell, dir) ==
    LET next == Neighbour(cell, dir) IN
    IF ~IS_CELL_OUT_OF_BOUNDS(next)
    THEN IF ~st.discovered[next] /\ WallExists(maze, cell, dir) < WALL_THRESHOLD
         THEN [st EXCEPT !.discovered[next] = TRUE,
                         !.q = Append(@, next)]
         ELSE st
    ELSE st

\* one "Check <dir>" block of the loop body, for the popped cell
FloodProbe(maze, st, cell, dir) ==
    LET next == Neighbour(cell, dir) IN
    IF ~IS_CELL_OUT_OF_BOUNDS(next)
    THEN IF ~st.discovered[next] /\ WallExists(maze, cell, dir) < WALL_THRESHOLD
         THEN [st EXCEPT !.discovered[next] = TRUE,
                         !.next_q = Append(@, next)]
         ELSE st
    ELSE st

\* one iteration of the while loop
FloodIteration(maze, st) ==
    LET swapped == IF st.q = <<>>
                   THEN [st EXCEPT !.q = st.next_q, !.next_q = <<>>,
                                   !.value = @ + 1]
                   ELSE st
        cell    == Head(swapped.q)
        popped  == [swapped EXCEPT !.q = Tail(@), !.pops = @ + 1]
    IN  IF IS_CELL_OUT_OF_BOUNDS(cell)
        THEN popped
        ELSE LET s0 == [popped EXCEPT !.values[cell] = popped.value]
                 s1 == FloodProbe(maze, s0, cell, "North")
                 s2 == FloodProbe(maze, s1, cell, "East")
                 s3 == FloodProbe(maze, s2, cell, "South")
             IN  FloodProbe(maze, s3, cell, "West")

\* the while condition
FloodContinues(st) == ~(st.q = <<>>) \/ ~(st.next_q = <<>>)

\* at most n iterations of the while loop
RECURSIVE FloodRun(_, _, _)
FloodRun(maze, st, n) ==
    IF n = 0 \/ ~FloodContinues(st)
    THEN st
    ELSE FloodRun(maze, FloodIteration(maze, st), n - 1)

\* the while loop, run to its exit in stretches of MAZE_SIZE iterations (the
\* stretches only keep the evaluation's nesting shallow)
RECURSIVE FloodLoop(_, _)
FloodLoop(maze, st) ==
    IF ~FloodContinues(st)
    THEN st
    ELSE FloodLoop(maze, FloodRun(maze, st, MAZE_SIZE))

\* the loop state when floodfill returns
floodfill(maze, cell, value) == FloodLoop(maze, FloodStart(cell, value))

\* the locals of a loop state, and the loop state the locals and the globals make
LoopOf(st) == [q |-> st.q, next_q |-> st.next_q, value |-> st.value, pops |-> st.pops]

LoopState ==
    [q |-> loop.q, next_q |-> loop.next_q, value |-> loop.value,
     values |-> values, discovered |-> discovered, pops |-> loop.pops]

(***************************************************************************)
(* convertLocationToCell, convertCellToLocation.  A location is            *)
(* [x_mu, y_mu, theta_mu]; the C cast (int) truncates toward zero.         *)
(***************************************************************************)
TruncDiv(a, b) == IF a >= 0 THEN a \div b ELSE -((-a) \div b)

convertLocationToCell(location) ==
    Cell(TruncDiv(location.x_mu, WALL_THICKNESS + CELL_LENGTH),
         TruncDiv(location.y_mu, WALL_THICKNESS + CELL_LENGTH))

\* convertCellToLocation stepping by CELL_LENGTH, without WALL_THICKNESS
convertCellToLocationNoWall(cell, to_return) ==
    [to_return EXCEPT
        !.x_mu = (cell.x * CELL_LENGTH) + (CELL_LENGTH \div 2),
        !.y_mu = (cell.y * CELL_LENGTH) + (CELL_LENGTH \div 2)]

\* convertCellToLocation writing theta_mu as well (a quarter turn, in degrees)
convertCellToLocationSetsTheta(cell, to_return) ==
    [to_return EXCEPT
        !.x_mu = (cell.x * (WALL_THICKNESS + CELL_LENGTH)) + (CELL_LENGTH \div 2),
        !.y_mu = (cell.y * (WALL_THICKNESS + CELL_LENGTH)) + (CELL_LENGTH \div 2),
        !.theta_mu = 90]

\* writes x_mu and y_mu of to_return only
convertCellToLocation(cell, to_return) ==
    [to_return EXCEPT
        !.x_mu = (cell.x * (WALL_THICKNESS + CELL_LENGTH)) + (CELL_LENGTH \div 2),
        !.y_mu = (cell.y * (WALL_THICKNESS + CELL_LENGTH)) + (CELL_LENGTH \div 2)]

(***************************************************************************)
(* chooseNextCell.  Each "Check <dir>" block reads values[][] at the       *)
(* neighbour's index first, without a bounds check, and reads the wall     *)
(* only when the value is lower than lowest_value.  A read outside the     *)
(* array yields garbage[dir].  When the robot's cell itself is outside the *)
(* grid, maze_state->cells[x][y] is outside the array too and the wall     *)
(* read through it yields garbage[WallKey(dir)].                           *)
(***************************************************************************)
\* the directions in which the neighbour's index is outside values[][]
OobDirections(cell) ==
    {Directions[i] : i \in {j \in 1 .. 4 :
                              IS_CELL_OUT_OF_BOUNDS(Neighbour(cell, Directions[j]))}}

WallKey(dir) ==
    CASE dir = "North" -> "north"
      [] dir = "East"  -> "east"
      [] dir = "South" -> "south"
      [] dir = "West"  -> "west"

\* the wall pointers read outside maze_state->cells[][]
OobWalls(cell) ==
    IF IS_CELL_OUT_OF_BOUNDS(cell)
    THEN {WallKey(Directions[i]) : i \in 1 .. 4}
    ELSE {}

\* what the reads outside the arrays may yield for a call with robot cell `cell`
GarbageReads(cell) ==
    {gv @@ gw : gv \in [OobDirections(cell) -> Garbage],
                gw \in [OobWalls(cell) -> WallGarbage]}

\* maze_state->cells[cell.x][cell.y].<dir>->exists as the selector reads it
ReadWall(maze, cell, garbage, dir) ==
    IF IS_CELL_OUT_OF_BOUNDS(cell)
    THEN garbage[WallKey(dir)]
    ELSE WallExists(maze, cell, dir)

\* values[next.x][next.y] as the selector reads it
ReadValue(vals, next, garbage, dir) ==
    IF IS_CELL_OUT_OF_BOUNDS(next) THEN garbage[dir] ELSE vals[next]

\* ChooseProbe without the test of the wall
ChooseProbeIgnoresWall(maze, vals, cell, garbage, acc, dir) ==
    LET next == Neighbour(cell, dir)
        v    == ReadValue(vals, next, garbage, dir)
    IN  IF v < acc.lowest_value
        THEN [lowest_value |-> v, next_cell |-> next]
        ELSE acc

\* ChooseProbe comparing with <= instead of <
ChooseProbeLastWins(maze, vals, cell, garbage, acc, dir) ==
    LET next == Neighbour(cell, dir)
        v    == ReadValue(vals, next, garbage, dir)
    IN  IF v <= acc.lowest_value /\ ReadWall(maze, cell, garbage, dir) < WALL_THRESHOLD
        THEN [lowest_value |-> v, next_cell |-> next]
        ELSE acc

\* one "Check <dir>" block; acc is [lowest_value, next_cell]
ChooseProbe(maze, vals, cell, garbage, acc, dir) ==
    LET next == Neighbour(cell, dir)
        v    == ReadValue(vals, next, garbage, dir)
    IN  IF v < acc.lowest_value /\ ReadWall(maze, cell, garbage, dir) < WALL_THRESHOLD
        THEN [lowest_value |-> v, next_cell |-> next]
        ELSE acc

\* chooseNextCell without the early return at the goal
chooseNextCellNoGoalCheck(maze, vals, cell, garbage) ==
    LET a0 == [lowest_value |-> MAX_VALUE, next_cell |-> Cell(cell.x, cell.y)]
        a1 == ChooseProbe(maze, vals, cell, garbage, a0, "North")
        a2 == ChooseProbe(maze, vals, cell, garbage, a1, "East")
        a3 == ChooseProbe(maze, vals, cell, garbage, a2, "South")
        a4 == ChooseProbe(maze, vals, cell, garbage, a3, "West")
    IN  a4.next_cell

chooseNextCell(maze, vals, cell, garbage) ==
    LET a0 == [lowest_value |-> MAX_VALUE, next_cell |-> Cell(cell.x, cell.y)]
    IN  IF cell.x = goal_cell.x /\ cell.y = goal_cell.y
        THEN a0.next_cell
        ELSE LET a1 == ChooseProbe(maze, vals, cell, garbage, a0, "North")
                 a2 == ChooseProbe(maze, vals, cell, garbage, a1, "East")
                 a3 == ChooseProbe(maze, vals, cell, garbage, a2, "South")
                 a4 == ChooseProbe(maze, vals, cell, garbage, a3, "West")
             IN  a4.next_cell

\* the indices of values[][] that chooseNextCell reads for cell
SelectorReads(cell) ==
    IF cell.x = goal_cell.x /\ cell.y = goal_cell.y
    THEN {}
    ELSE {Neighbour(cell, Directions[i]) : i \in 1 .. 4}

(***************************************************************************)
(* strategy(): the two LED branches                                        *)
(***************************************************************************)
\* the outer if comparing the x coordinates only
TogglesLed2OnColumn(prev, next, robot) == prev.x = next.x

\* the outer if running only away from the goal
TogglesLed2AwayFromGoal(prev, next, robot) ==
    /\ prev.x = next.x /\ prev.y = next.y
    /\ ~(robot.x = goal_cell.x /\ robot.y = goal_cell.y)

\* the condition of the outer if: toggleLED(2) runs
TogglesLed2(prev, next, robot) == prev.x = next.x /\ prev.y = next.y

\* setHighLED(1) runs: the inner if, nested in the outer one
SetsLed1(prev, next, robot) ==
    TogglesLed2(prev, next, robot) /\ robot.x = next.x /\ robot.y = next.y

(***************************************************************************)
(* Inputs                                                                  *)
(***************************************************************************)
Pitch == WALL_THICKNESS + CELL_LENGTH

\* the centre of column or row i, in millimetres
CentreOf(i) == i * Pitch + CELL_LENGTH \div 2

ReferenceBuild == width = MAZE_WIDTH /\ height = MAZE_HEIGHT

\* the cells the robot is placed in: every cell of a reduced build, and in
\* the reference build the corners, the goal and the cells around it
ReferenceCells ==
    {Cell(0, 0), Cell(MAZE_WIDTH - 1, 0), Cell(MAZE_WIDTH - 1, MAZE_HEIGHT - 1),
     Cell(GOAL_CELL_X, GOAL_CELL_Y),
     Cell(GOAL_CELL_X - 1, GOAL_CELL_Y), Cell(GOAL_CELL_X + 1, GOAL_CELL_Y),
     Cell(GOAL_CELL_X, GOAL_CELL_Y - 1), Cell(GOAL_CELL_X - 1, GOAL_CELL_Y + 1)}

RobotCells == IF ReferenceBuild THEN ReferenceCells ELSE Cells

\* the cells the robot is also placed in off the centre
OffCentreCells == {Cell(0, 0), goal_cell, Cell(width - 1, height - 1)}

PoseAt(c, dx, dy) ==
    [x_mu |-> c.x * Pitch + dx, y_mu |-> c.y * Pitch + dy, theta_mu |-> 0]

\* the centre of each robot cell, and a corner of the pitch of some
Poses ==
    {PoseAt(c, CELL_LENGTH \div 2, CELL_LENGTH \div 2) : c \in RobotCells}
    \cup {PoseAt(c, 0, Pitch - 1) : c \in OffCentreCells}

\* poses outside the maze: one beyond the east border in the last row, one
\* beyond the west border in the first row ((int) truncates toward zero, so
\* only a pose more than a pitch west of the maze is in column -1)
OutOfMazePoses ==
    {PoseAt(Cell(width, height - 1), CELL_LENGTH \div 2, CELL_LENGTH \div 2),
     PoseAt(Cell(-2, 0), CELL_LENGTH \div 2, CELL_LENGTH \div 2)}

(***************************************************************************)
(* Mazes                                                                   *)
(***************************************************************************)
RECURSIVE SubsetsUpTo(_, _)
SubsetsUpTo(S, k) ==
    IF k = 0
    THEN {{}}
    ELSE LET smaller == SubsetsUpTo(S, k - 1)
         IN  smaller \cup {s \cup {w} : s \in smaller, w \in S}

\* borders certain, the walls of closed at level, every other wall absent
MazeWith(closed, level) ==
    [w \in Walls |-> IF IsBorderWall(w) THEN CertainLevel
                     ELSE IF w \in closed THEN level
                     ELSE OpenLevel]

ReducedMazes ==
    {MazeWith(closed, level) :
        closed \in SubsetsUpTo(InteriorWalls, MaxClosed), level \in ClosedLevels}

\* the walls the mapping subsystem revises between calls, and the levels it
\* sets them to
MappedWalls == {WallOf(goal_cell, Directions[i]) : i \in 1 .. 4}

MappedLevels == {OpenLevel, CertainLevel}

ReferenceGoal == Cell(GOAL_CELL_X, GOAL_CELL_Y)

\* S1: all interior walls absent
EmptyMaze == MazeWith({}, CertainLevel)
\* S3: only the wall between (6,7) and (7,7) present
DetourMaze == MazeWith({WallOf(ReferenceGoal, "West")}, CertainLevel)
\* S4: the four walls around the goal present
WalledGoalMaze ==
    MazeWith({WallOf(ReferenceGoal, Directions[i]) : i \in 1 .. 4}, CertainLevel)

ReferenceMazes == {EmptyMaze, DetourMaze, WalledGoalMaze}

(***************************************************************************)
(* Initial states: the globals are zero-initialised, no call was made      *)
(***************************************************************************)
\* a zero-initialised gaussian_location_t (the means only)
NoLocation == [x_mu |-> 0, y_mu |-> 0, theta_mu |-> 0]

InitStatics ==
    /\ values = [c \in Cells |-> 0]
    /\ discovered = [c \in Cells |-> FALSE]
    /\ prev_next_cell = Cell(0, 0)
    /\ led1 = FALSE
    /\ led2 = FALSE
    /\ robot_location = [x_mu |-> CELL_LENGTH \div 2, y_mu |-> CELL_LENGTH \div 2,
                         theta_mu |-> 0]
    /\ next_location = robot_location
    /\ robot_cell = Cell(0, 0)
    /\ next_cell = Cell(0, 0)
    /\ oscillation_hint = FALSE
    /\ arrival_hint = FALSE
    /\ oob_reads = {}
    /\ loop = [q |-> <<>>, next_q |-> <<>>, value |-> 0, pops |-> 0]
    /\ run = [start |-> Cell(0, 0), calls |-> 0]
    /\ movement = [prev_location         |-> NoLocation,
                   entry_prev_location   |-> NoLocation,
                   current_location      |-> NoLocation,
                   next_location         |-> NoLocation,
                   currentState          |-> "none",
                   direction             |-> "none",
                   intermediate_location |-> NoLocation,
                   left_speed            |-> 0,
                   right_speed           |-> 0]
    /\ op = "boot"

InitReduced ==
    /\ width = GridW
    /\ height = GridH
    /\ goal_cell = Cell((GOAL_CELL_X * GridW) \div MAZE_WIDTH,
                        (GOAL_CELL_Y * GridH) \div MAZE_HEIGHT)
    /\ maze_state \in ReducedMazes
    /\ InitStatics

InitReference ==
    /\ width = MAZE_WIDTH
    /\ height = MAZE_HEIGHT
    /\ goal_cell = ReferenceGoal
    /\ maze_state \in ReferenceMazes
    /\ InitStatics

Init == InitReduced \/ InitReference

\* the reduced build on the maze with every interior wall absent
InitMapping ==
    /\ InitReduced
    /\ maze_state = MazeWith({}, CertainLevel)

\* the reduced build on the mazes with at most one wall believed present
InitOutOfMaze ==
    /\ InitReduced
    /\ \E closed \in SubsetsUpTo(InteriorWalls, 1) :
           maze_state = MazeWith(closed, CertainLevel)

(***************************************************************************)
(* Operations                                                              *)
(***************************************************************************)
initializeStrategy ==
    /\ op = "boot"
    /\ values' = resetValues
    /\ discovered' = setAllDiscoveredToFalse
    /\ op' = "initializeStrategy"
    /\ UNCHANGED <<width, height, goal_cell, maze_state, prev_next_cell, led1,
                   led2, robot_location, next_location, robot_cell, next_cell,
                   oscillation_hint, arrival_hint, oob_reads, loop, run, movement>>

\* strategy() called with a robot_location of locations; the run is left to
\* the action that uses this
strategyCalled(locations) ==
    \E flood \in {floodfill(maze_state, goal_cell, 0)} :
    \E location \in locations :
    \E cell \in {convertLocationToCell(location)} :
        \E garbage \in GarbageReads(cell) :
        \E next \in {chooseNextCell(maze_state, flood.values, cell, garbage)} :
            /\ robot_location' = location
            /\ robot_cell' = cell
            /\ values' = flood.values
            /\ discovered' = flood.discovered
            /\ loop' = LoopOf(flood)
            /\ next_cell' = next
            /\ oob_reads' = {c \in SelectorReads(cell) : IS_CELL_OUT_OF_BOUNDS(c)}
            /\ oscillation_hint' = TogglesLed2(prev_next_cell, next, cell)
            /\ led2' = IF TogglesLed2(prev_next_cell, next, cell) THEN ~led2 ELSE led2
            /\ arrival_hint' = SetsLed1(prev_next_cell, next, cell)
            /\ led1' = IF SetsLed1(prev_next_cell, next, cell) THEN TRUE ELSE led1
            /\ prev_next_cell' = next
            /\ next_location' = convertCellToLocation(next, next_location)
            /\ op' = "strategy"
            /\ UNCHANGED <<width, height, goal_cell, maze_state, movement>>

\* strategy() called with the robot in the maze
strategy == strategyCalled(Poses) /\ UNCHANGED run

Next == initializeStrategy \/ strategy

Spec == Init /\ [][Next]_vars

(***************************************************************************)
(* strategy() called with the robot outside the maze as well               *)
(***************************************************************************)
strategyOutOfMaze == strategyCalled(OutOfMazePoses) /\ UNCHANGED run

NextOutOfMaze == initializeStrategy \/ strategy \/ strategyOutOfMaze

SpecOutOfMaze == InitOutOfMaze /\ [][NextOutOfMaze]_vars

(***************************************************************************)
(* The mapping subsystem revising walls between the calls of strategy()    *)
(***************************************************************************)
mapping ==
    /\ \E w \in MappedWalls :
       \E level \in MappedLevels \ {maze_state[w]} :
           maze_state' = [maze_state EXCEPT ![w] = level]
    /\ op' = "mapping"
    /\ UNCHANGED <<width, height, goal_cell, values, discovered, prev_next_cell,
                   led1, led2, robot_location, next_location, robot_cell,
                   next_cell, oscillation_hint, arrival_hint, oob_reads, loop, run, movement>>

NextMapping == initializeStrategy \/ strategy \/ mapping

SpecMapping == InitMapping /\ [][NextMapping]_vars

(***************************************************************************)
(* A run: the robot is set down in a cell, strategy() is called, and for   *)
(* every further call the robot is at the target pose the call before      *)
(* returned.  The run is followed for MaxCalls calls.                      *)
(***************************************************************************)
\* the first call of the run
strategyStart ==
    /\ op \in {"boot", "initializeStrategy"}
    /\ strategyCalled(Poses)
    /\ run' = [start |-> robot_cell', calls |-> 1]

\* a further call, the robot at the target pose of the call before
strategyFollow ==
    /\ op = "strategy"
    /\ run.calls < MaxCalls
    /\ strategyCalled({next_location})
    /\ run' = [run EXCEPT !.calls = @ + 1]

NextRun == initializeStrategy \/ strategyStart \/ strategyFollow

SpecRun == Init /\ [][NextRun]_vars

(***************************************************************************)
(* floodfill(maze_state, goal_cell, 0) one iteration of its loop at a time *)
(***************************************************************************)
\* the call, up to the first test of the while condition
floodfillCall ==
    /\ op # "floodfill"
    /\ \E st \in {FloodStart(goal_cell, 0)} :
           /\ values' = st.values
           /\ discovered' = st.discovered
           /\ loop' = LoopOf(st)
    /\ op' = "floodfill"
    /\ UNCHANGED <<width, height, goal_cell, maze_state, prev_next_cell, led1,
                   led2, robot_location, next_location, robot_cell, next_cell,
                   oscillation_hint, arrival_hint, oob_reads, run, movement>>

\* one iteration of the while loop
floodfillIteration ==
    /\ op = "floodfill"
    /\ FloodContinues(LoopState)
    /\ \E st \in {FloodIteration(maze_state, LoopState)} :
           /\ values' = st.values
           /\ discovered' = st.discovered
           /\ loop' = LoopOf(st)
    /\ UNCHANGED <<width, height, goal_cell, maze_state, prev_next_cell, led1,
                   led2, robot_location, next_location, robot_cell, next_cell,
                   oscillation_hint, arrival_hint, oob_reads, run, movement, op>>

\* the while condition fails and floodfill returns
floodfillReturn ==
    /\ op = "floodfill"
    /\ ~FloodContinues(LoopState)
    /\ op' = "floodfillReturn"
    /\ UNCHANGED <<width, height, goal_cell, maze_state, values, discovered,
                   prev_next_cell, led1, led2, robot_location, next_location,
                   robot_cell, next_cell, oscillation_hint, arrival_hint,
                   oob_reads, loop, run, movement>>

NextFlood ==
    initializeStrategy \/ floodfillCall \/ floodfillIteration \/ floodfillReturn

SpecFlood == Init /\ [][NextFlood]_vars

\* floodfill is straight-line code on one thread: once called, each iteration
\* and the return are taken
SpecFloodFair ==
    SpecFlood /\ WF_vars(floodfillIteration) /\ WF_vars(floodfillReturn)

(***************************************************************************)
(* movement.cpp: calculateSpeed.  Angles are integer degrees, so PI is     *)
(* 180.  TOLERANCE_MM, TOLERANCE_RAD and abs are defined outside the       *)
(* sources at hand; straightController and turnController have empty       *)
(* bodies.                                                                 *)
(***************************************************************************)
PI == 180
TOLERANCE_MM == 10
TOLERANCE_RAD == 5

Abs(a) == IF a < 0 THEN -a ELSE a

IS_BETWEEN_ERROR(x, y, e) == x < y + e /\ x > y - e

directionToRAD ==
    ("North" :> (3 * PI) \div 2) @@ ("East" :> 0)
    @@ ("South" :> PI \div 2) @@ ("West" :> PI)

\* directionToXY[direction][0] is <<...>>[1] here, [direction][1] is [2]
directionToXY ==
    ("North" :> <<0, -1>>) @@ ("East" :> <<1, 0>>)
    @@ ("South" :> <<1, 0>>) @@ ("West" :> <<-1, 0>>)

chooseDirectionOutOfTolerance(x_cte, y_cte) ==
    IF Abs(x_cte) < Abs(y_cte)
    THEN (IF x_cte > 0 THEN "East" ELSE "West")
    ELSE (IF y_cte > 0 THEN "South" ELSE "North")

chooseDirectionWithinTolerance(x_cte, y_cte) ==
    IF Abs(x_cte) < Abs(y_cte)
    THEN (IF y_cte > 0 THEN "South" ELSE "North")
    ELSE (IF x_cte > 0 THEN "East" ELSE "West")

\* the if chain that sets direction and currentState
MovementState(current, next) ==
    LET x_cte == next.x_mu - current.x_mu
        y_cte == next.y_mu - current.y_mu
    IN  IF Abs(x_cte) > TOLERANCE_MM /\ Abs(y_cte) > TOLERANCE_MM
        THEN LET direction == chooseDirectionOutOfTolerance(x_cte, y_cte) IN
             [direction    |-> direction,
              currentState |->
                  IF IS_BETWEEN_ERROR(current.theta_mu, directionToRAD[direction],
                                      TOLERANCE_RAD)
                  THEN "OUT_XY_IN_THETA" ELSE "OUT_XY_OUT_THETA"]
        ELSE IF Abs(x_cte) < TOLERANCE_MM /\ Abs(y_cte) < TOLERANCE_MM
        THEN [direction |-> "none", currentState |-> "PERFECT"]
        ELSE LET direction == chooseDirectionWithinTolerance(x_cte, y_cte) IN
             [direction    |-> direction,
              currentState |->
                  IF IS_BETWEEN_ERROR(current.theta_mu, directionToRAD[direction],
                                      TOLERANCE_RAD)
                  THEN "IN_XY_IN_THETA" ELSE "IN_XY_OUT_THETA"]

\* case OUT_XY_IN_THETA: the location passed to straightController
IntermediateLocation(prev, next, direction) ==
    [x_mu     |-> IF directionToXY[direction][1] = 0 THEN prev.x_mu ELSE next.x_mu,
     y_mu     |-> IF directionToXY[direction][2] = 0 THEN prev.y_mu ELSE next.y_mu,
     theta_mu |-> 0]

\* the coordinates and headings the movement layer is called with
\* (cell centres one, two and three pitches apart, so that either error can
\* be the larger one)
MoveCoordinates == {CentreOf(0), CentreOf(1), CentreOf(3)}

MoveHeadings == {0, PI \div 2, PI, (3 * PI) \div 2}

MoveLocations ==
    [x_mu : MoveCoordinates, y_mu : MoveCoordinates, theta_mu : MoveHeadings]

\* targets: the centres of the first two cells of the second row
MoveTargets ==
    [x_mu : {CentreOf(0), CentreOf(1)}, y_mu : {CentreOf(1)}, theta_mu : {0}]

\* the speed the motors are running at when calculateSpeed is called
MoveSpeeds == {1}

initializeMovement ==
    /\ op = "boot"
    /\ \E current \in MoveLocations :
           movement' = [movement EXCEPT !.prev_location = current,
                                        !.current_location = current]
    /\ op' = "initializeMovement"
    /\ UNCHANGED <<width, height, goal_cell, maze_state, values, discovered,
                   prev_next_cell, led1, led2, robot_location, next_location,
                   robot_cell, next_cell, oscillation_hint, arrival_hint,
                   oob_reads, loop, run>>

calculateSpeed ==
    /\ \E current \in MoveLocations :
       \E next \in MoveTargets :
       \E speed \in MoveSpeeds :
       \E st \in {MovementState(current, next)} :
           movement' =
               [prev_location         |-> current,
                entry_prev_location   |-> movement.prev_location,
                current_location      |-> current,
                next_location         |-> next,
                currentState          |-> st.currentState,
                direction             |-> st.direction,
                intermediate_location |->
                    IF st.currentState = "OUT_XY_IN_THETA"
                    THEN IntermediateLocation(movement.prev_location, next,
                                              st.direction)
                    ELSE NoLocation,
                left_speed            |-> IF st.currentState = "PERFECT" THEN 0 ELSE speed,
                right_speed           |-> IF st.currentState = "PERFECT" THEN 0 ELSE speed]
    /\ op' = "calculateSpeed"
    /\ UNCHANGED <<width, height, goal_cell, maze_state, values, discovered,
                   prev_next_cell, led1, led2, robot_location, next_location,
                   robot_cell, next_cell, oscillation_hint, arrival_hint,
                   oob_reads, loop, run>>

NextMovement == initializeMovement \/ calculateSpeed

SpecMovement == InitMapping /\ [][NextMovement]_vars

(***************************************************************************)
(* Reference notions the properties are stated with                        *)
(***************************************************************************)
AfterStrategy == op = "strategy"

\* the centre of a cell in millimetres
CentreX(cell) == cell.x * Pitch + CELL_LENGTH \div 2
CentreY(cell) == cell.y * Pitch + CELL_LENGTH \div 2

\* the directions (as indices of Directions) in which cell has an in-grid
\* neighbour across a wall with exists < WALL_THRESHOLD
OpenDirections(cell) ==
    {i \in 1 .. 4 : /\ ~IS_CELL_OUT_OF_BOUNDS(Neighbour(cell, Directions[i]))
                    /\ maze_state[WallOf(cell, Directions[i])] < WALL_THRESHOLD}

OpenNeighbours(cell) == {Neighbour(cell, Directions[i]) : i \in OpenDirections(cell)}

\* the true hop count from the goal: frontier holds the cells at exactly k
\* hops, seen the cells at fewer; a cell never met is not connected
RECURSIVE HopsFrom(_, _, _)
HopsFrom(seen, frontier, k) ==
    IF frontier = {}
    THEN [c \in Cells \ seen |-> MAX_VALUE]
    ELSE LET met == seen \cup frontier
         IN  [c \in frontier |-> k]
             @@ HopsFrom(met, (UNION {OpenNeighbours(c) : c \in frontier}) \ met, k + 1)

TrueHops == HopsFrom({}, {goal_cell}, 0)

Connected == {c \in Cells : TrueHops[c] < MAX_VALUE}

Min(S) == CHOOSE m \in S : \A n \in S : m <= n

(***************************************************************************)
(* C1.  After floodfill returns, values[c] is the true minimum number of   *)
(* hops from the goal to c across walls with exists < WALL_THRESHOLD, for  *)
(* every cell c, and it is MAX_VALUE exactly for the cells that are not    *)
(* connected to the goal.                                                  *)
(***************************************************************************)
FloodIsTrueDistance ==
    AfterStrategy =>
        \E hops \in {TrueHops} :
            /\ values = hops
            /\ \A c \in Cells : (values[c] = MAX_VALUE) <=> (hops[c] = MAX_VALUE)
            /\ \A c \in Cells : hops[c] < MAX_VALUE => hops[c] < width * height

\* a flood of a reduced build that left a cell unconnected and, around a
\* wall believed present, set another cell at more hops than its distance in
\* the empty maze
FloodWitness ==
    /\ AfterStrategy
    /\ ~ReferenceBuild
    /\ \E c \in Cells : c # goal_cell /\ values[c] = MAX_VALUE
    /\ \E c \in Cells : values[c] = 2

(***************************************************************************)
(* C2.  Monotone descent: from a robot cell r that is connected to the     *)
(* goal and is not the goal, the selected cell n has                       *)
(* values[n] = values[r] - 1; from the goal, n = r.                        *)
(***************************************************************************)
MonotoneDescent ==
    AfterStrategy =>
        /\ (robot_cell # goal_cell /\ values[robot_cell] < MAX_VALUE)
              => /\ next_cell \in Cells
                 /\ values[next_cell] = values[robot_cell] - 1
        /\ robot_cell = goal_cell => next_cell = robot_cell

\* a descent from a cell three hops from the goal
DescentWitness ==
    /\ AfterStrategy
    /\ robot_cell # goal_cell
    /\ values[robot_cell] = 3
    /\ next_cell # robot_cell

(***************************************************************************)
(* C3.  Goal fixed point: a strategy() call with the pose at the centre of *)
(* the goal cell returns the goal's centre and raises the arrival hint in  *)
(* that call, whatever the remembered previous selection is.               *)
(***************************************************************************)
GoalFixedPoint ==
    (/\ AfterStrategy
     /\ robot_location.x_mu = CentreX(goal_cell)
     /\ robot_location.y_mu = CentreY(goal_cell))
        => /\ next_location.x_mu = CentreX(goal_cell)
           /\ next_location.y_mu = CentreY(goal_cell)
           /\ arrival_hint

(***************************************************************************)
(* C4.  Border containment: the selected cell is in the grid, and the      *)
(* selector reads values[][] at no out-of-grid index.                      *)
(***************************************************************************)
BorderContainment ==
    AfterStrategy => /\ ~IS_CELL_OUT_OF_BOUNDS(next_cell)
                     /\ oob_reads = {}

(***************************************************************************)
(* C5.  For a non-goal robot cell r the selected cell is r itself or an    *)
(* in-grid 4-neighbour of r across a wall with exists < WALL_THRESHOLD,    *)
(* and then no neighbour of r across an open wall has a strictly smaller   *)
(* value.                                                                  *)
(***************************************************************************)
SelectsOpenLowestNeighbour ==
    (AfterStrategy /\ robot_cell # goal_cell) =>
        \/ next_cell = robot_cell
        \/ /\ next_cell \in OpenNeighbours(robot_cell)
           /\ \A n \in OpenNeighbours(robot_cell) : values[n] >= values[next_cell]

\* a move chosen while a wall believed present closes off a lower neighbour
OpenLowestWitness ==
    /\ AfterStrategy
    /\ robot_cell # goal_cell
    /\ next_cell \in OpenNeighbours(robot_cell)
    /\ \E i \in (1 .. 4) \ OpenDirections(robot_cell) :
          LET n == Neighbour(robot_cell, Directions[i])
          IN  n \in Cells /\ values[n] < values[next_cell]

(***************************************************************************)
(* C6.  Tie-breaking: when two or more open neighbours of the robot cell   *)
(* share the lowest value, the first of them in the order North, East,     *)
(* South, West is selected; in the empty 16 x 16 maze from (0,0) that is   *)
(* (1,0), with target x = 264, y = 84.                                     *)
(***************************************************************************)
\* the value shared by the lowest open neighbours of cell
LowestOpenValue(cell) ==
    Min({values[Neighbour(cell, Directions[i])] : i \in OpenDirections(cell)})

\* the directions of the open neighbours of cell that hold that value
LowestOpenDirections(cell) ==
    {i \in OpenDirections(cell) :
        values[Neighbour(cell, Directions[i])] = LowestOpenValue(cell)}

Tied(cell) ==
    /\ cell # goal_cell
    /\ Cardinality(LowestOpenDirections(cell)) >= 2

SelectsFirstOfTied(cell) ==
    next_cell = Neighbour(cell, Directions[Min(LowestOpenDirections(cell))])

EmptyMazeScenario ==
    (ReferenceBuild /\ maze_state = EmptyMaze /\ robot_cell = Cell(0, 0))
        => /\ next_cell = Cell(1, 0)
           /\ next_location.x_mu = 264
           /\ next_location.y_mu = 84

NoDirectionQualifies(cell) ==
    \A n \in OpenNeighbours(cell) : values[n] = MAX_VALUE

StaysPutWhenUnreachable ==
    (AfterStrategy /\ (values[robot_cell] = MAX_VALUE \/ NoDirectionQualifies(robot_cell)))
        => /\ next_cell = robot_cell
           /\ next_location.x_mu = CentreX(robot_cell)
           /\ next_location.y_mu = CentreY(robot_cell)

\* the robot off the centre of an unconnected cell that has an open neighbour
StaysPutWitness ==
    /\ AfterStrategy
    /\ robot_cell # goal_cell
    /\ values[robot_cell] = MAX_VALUE
    /\ OpenNeighbours(robot_cell) # {}
    /\ robot_location.x_mu # CentreX(robot_cell)
    /\ next_cell = robot_cell

(***************************************************************************)
(* C8.  Scenario S3: in the reference build with only the wall between    *)
(* (6,7) and (7,7) present, the flood gives values[(6,7)] = 2 and from     *)
(* (6,7) the selector picks the North or South neighbour, whose value      *)
(* is 1.                                                                   *)
(***************************************************************************)
\* the claim as stated
DetourScenario ==
    (AfterStrategy /\ ReferenceBuild /\ maze_state = DetourMaze) =>
        /\ values[Cell(6, 7)] = 2
        /\ robot_cell = Cell(6, 7)
              => /\ next_cell \in {Cell(6, 6), Cell(6, 8)}
                 /\ values[next_cell] = 1

\* as amended: the detour around the wall takes three hops, the neighbour two
DetourScenarioThreeHops ==
    (AfterStrategy /\ ReferenceBuild /\ maze_state = DetourMaze) =>
        /\ values[Cell(6, 7)] = 3
        /\ robot_cell = Cell(6, 7)
              => /\ next_cell \in {Cell(6, 6), Cell(6, 8)}
                 /\ values[next_cell] = 2

DetourWitness ==
    /\ AfterStrategy
    /\ ReferenceBuild
    /\ maze_state = DetourMaze
    /\ robot_cell = Cell(6, 7)
    /\ next_cell # robot_cell

(***************************************************************************)
(* C9.  Oscillation hint: on a strategy() call after the first, LED 2 is   *)
(* toggled if and only if the cell the call selects equals the cell the    *)
(* preceding call selected.                                                *)
(***************************************************************************)
OscillationHintIffRepeat ==
    [][(AfterStrategy /\ op' = "strategy")
          => /\ oscillation_hint' <=> (next_cell' = next_cell)
             /\ oscillation_hint' <=> (led2' # led2)]_vars

\* a second or later call that repeats a selection other than the robot cell
OscillationWitness ==
    /\ AfterStrategy
    /\ oscillation_hint
    /\ next_cell # Cell(0, 0)
    /\ next_cell # robot_cell

(***************************************************************************)
(* C10.  Arrival hint: a strategy() call raises LED 1 if and only if the   *)
(* robot's cell equals the cell the call selects, whatever the previous    *)
(* call selected.                                                          *)
(***************************************************************************)
ArrivalHintIffAtSelection ==
    AfterStrategy => (arrival_hint <=> (robot_cell = next_cell))

(***************************************************************************)
(* C11.  The flood is independent of the prior planner state: whatever     *)
(* values[][] and discovered[][] hold when strategy() is called (zeroes    *)
(* after boot, the reset of initializeStrategy, the flood of an earlier    *)
(* call on this maze or on the maze before the mapping revised it), the    *)
(* call leaves the field that the maze alone determines, and a call that   *)
(* follows another on the same maze leaves the same field again.           *)
(***************************************************************************)
FloodIndependentOfPriorState ==
    /\ [](AfterStrategy
            => /\ values = TrueHops
               /\ discovered = [c \in Cells |-> TrueHops[c] < MAX_VALUE])
    /\ [][(AfterStrategy /\ op' = "strategy")
            => values' = values /\ discovered' = discovered]_vars

\* calls were made (LED 1 needs two), the mapping has closed a wall and cut
\* cells off, and the last call flooded that maze
PriorStateWitness ==
    /\ AfterStrategy
    /\ led1
    /\ \E w \in MappedWalls : maze_state[w] = CertainLevel
    /\ \E c \in Cells : ~discovered[c]

(***************************************************************************)
(* C12.  A wall whose exists is exactly WALL_THRESHOLD counts as present   *)
(* for the flood and for the selector alike: the flood leaves the field it *)
(* leaves when every such wall is certain instead, and the selector never  *)
(* returns the neighbour across such a wall.                               *)
(***************************************************************************)
\* the maze with every wall exactly at the threshold made certain
AtThresholdMadeCertain ==
    [w \in Walls |-> IF maze_state[w] = WALL_THRESHOLD THEN CertainLevel
                     ELSE maze_state[w]]

ThresholdCountsAsPresent ==
    AfterStrategy
        => /\ values = floodfill(AtThresholdMadeCertain, goal_cell, 0).values
           /\ \A i \in 1 .. 4 :
                 maze_state[WallOf(robot_cell, Directions[i])] = WALL_THRESHOLD
                     => next_cell # Neighbour(robot_cell, Directions[i])

\* a wall exactly at the threshold keeps the robot from a neighbour that is
\* more than one hop nearer the goal and nearer than the cell selected
ThresholdWitness ==
    /\ AfterStrategy
    /\ \E i \in 1 .. 4 :
          LET n == Neighbour(robot_cell, Directions[i]) IN
          /\ ~IS_CELL_OUT_OF_BOUNDS(n)
          /\ maze_state[WallOf(robot_cell, Directions[i])] = WALL_THRESHOLD
          /\ values[n] + 1 < values[robot_cell]
          /\ values[n] < values[next_cell]

(***************************************************************************)
(* C13.  Coordinate round trip: with pitch WALL_THICKNESS + CELL_LENGTH =  *)
(* 180 and centre offset CELL_LENGTH / 2 = 84, convertLocationToCell of    *)
(* convertCellToLocation(c) is c for every cell c of the grid, and so the  *)
(* target pose a strategy() call returns converts back to the cell the     *)
(* call selected.                                                          *)
(***************************************************************************)
CoordinateRoundTrip ==
    /\ WALL_THICKNESS + CELL_LENGTH = 180
    /\ CELL_LENGTH \div 2 = 84
    /\ \A c \in Cells :
          convertLocationToCell(convertCellToLocation(c, next_location)) = c
    /\ AfterStrategy => convertLocationToCell(next_location) = next_cell

\* a call of the reference build returned the centre of a cell of the last
\* column and the last row
RoundTripWitness ==
    /\ AfterStrategy
    /\ ReferenceBuild
    /\ next_cell = Cell(MAZE_WIDTH - 1, MAZE_HEIGHT - 1)
    /\ next_location.x_mu = (MAZE_WIDTH - 1) * 180 + 84
    /\ next_location.y_mu = (MAZE_HEIGHT - 1) * 180 + 84

(***************************************************************************)
(* C14.  Contract violation: a strategy() call whose robot_location maps   *)
(* to a cell outside the grid changes neither the distance field, the      *)
(* discovered bitmap, the remembered selection nor the LEDs, signals no    *)
(* hint, and returns the current pose as the target.                       *)
(***************************************************************************)
ContractViolationIsNoOp ==
    [][(op' = "strategy" /\ IS_CELL_OUT_OF_BOUNDS(robot_cell'))
          => /\ values' = values
             /\ discovered' = discovered
             /\ prev_next_cell' = prev_next_cell
             /\ led1' = led1
             /\ led2' = led2
             /\ ~oscillation_hint'
             /\ ~arrival_hint'
             /\ next_location'.x_mu = robot_location'.x_mu
             /\ next_location'.y_mu = robot_location'.y_mu]_vars

(***************************************************************************)
(* C15.  The planner only reads the maze: a strategy() call changes no     *)
(* wall's exists and not the pose it is given, and of the output pose it   *)
(* writes the x and y means only; what it writes besides are values,       *)
(* discovered, the remembered selection and the LEDs.                      *)
(***************************************************************************)
PlannerOnlyReadsMaze ==
    [][op' = "strategy"
          => /\ maze_state' = maze_state
             /\ goal_cell' = goal_cell
             /\ robot_location' \in Poses
             /\ convertLocationToCell(robot_location') = robot_cell'
             /\ next_location' = [next_location EXCEPT
                                     !.x_mu = next_location'.x_mu,
                                     !.y_mu = next_location'.y_mu]]_vars

\* the mapping has made a wall certain, and a call on that maze wrote a
\* target pose other than the start pose
ReaderWitness ==
    /\ AfterStrategy
    /\ \E w \in MappedWalls : maze_state[w] = CertainLevel
    /\ next_location.x_mu # CELL_LENGTH \div 2
    /\ next_location.theta_mu = 0

(***************************************************************************)
(* Notions of the loop of floodfill                                        *)
(***************************************************************************)
InFloodfill == op = "floodfill"

\* the cells the two queues hold, the current queue first
Queued == loop.q \o loop.next_q

(***************************************************************************)
(* C16.  The queues never exceed their capacity: at every test of the      *)
(* while condition of floodfill the two queues together hold at most       *)
(* MAZE_WIDTH * MAZE_HEIGHT cells, because a cell is marked discovered     *)
(* when it is pushed and is pushed once only: no cell is held twice, every *)
(* cell held is marked discovered, and the cells popped and the cells held *)
(* together are as many as the cells marked discovered.                    *)
(***************************************************************************)
QueueCapacityNeverExceeded ==
    InFloodfill
        => /\ Len(loop.q) + Len(loop.next_q) <= width * height
           /\ \A i, j \in 1 .. Len(Queued) : Queued[i] = Queued[j] => i = j
           /\ \A i \in 1 .. Len(Queued) : discovered[Queued[i]]
           /\ loop.pops + Len(Queued) = Cardinality({c \in Cells : discovered[c]})

\* cells were popped and both queues hold cells
QueueWitness ==
    /\ InFloodfill
    /\ loop.pops >= 2
    /\ Len(loop.q) >= 1
    /\ Len(loop.next_q) >= 2

(***************************************************************************)
(* C17.  Level synchrony: at every test of the while condition of          *)
(* floodfill each cell of the current queue is at true hop distance value  *)
(* from the goal and each cell of the next-level queue at value + 1; every *)
(* iteration writes the distance of one cell, a cell not written before in *)
(* this flood, as the level counter, which never decreases; and when the   *)
(* loop is left every cell reached has been written.                       *)
(***************************************************************************)
LevelSynchrony ==
    /\ [](InFloodfill
            => \E hops \in {TrueHops} :
               /\ \A i \in 1 .. Len(loop.q) : hops[loop.q[i]] = loop.value
               /\ \A i \in 1 .. Len(loop.next_q) :
                     hops[loop.next_q[i]] = loop.value + 1
               /\ (~FloodContinues(LoopState)
                      => \A c \in Cells : discovered[c] => values[c] < MAX_VALUE))
    /\ [][(InFloodfill /\ loop'.pops = loop.pops + 1)
            => /\ loop'.value >= loop.value
               /\ \E c \in {Head(IF loop.q = <<>> THEN loop.next_q ELSE loop.q)} :
                     /\ values[c] = MAX_VALUE
                     /\ values' = [values EXCEPT ![c] = loop'.value]]_vars

\* the flood is at its third level or beyond with cells in both queues
LevelWitness ==
    /\ InFloodfill
    /\ loop.value >= 2
    /\ Len(loop.q) >= 1
    /\ Len(loop.next_q) >= 1

(***************************************************************************)
(* C18.  Termination: floodfill, once called, returns; it has then popped  *)
(* at most MAZE_WIDTH * MAZE_HEIGHT cells, it returns with both queues     *)
(* empty, and whenever it pops, the current queue (after the swap, if the  *)
(* swap was due) holds a cell.                                             *)
(***************************************************************************)
FloodfillTerminates ==
    /\ [](InFloodfill => loop.pops <= width * height)
    /\ [][(InFloodfill /\ loop'.pops = loop.pops + 1)
            => (IF loop.q = <<>> THEN loop.next_q ELSE loop.q) # <<>>]_vars
    /\ [][(InFloodfill /\ op' = "floodfillReturn")
            => loop.q = <<>> /\ loop.next_q = <<>>]_vars
    /\ (InFloodfill ~> op = "floodfillReturn")

\* floodfill has returned after popping every cell of the grid
TerminationWitness ==
    /\ op = "floodfillReturn"
    /\ loop.pops = width * height
    /\ loop.q = <<>>
    /\ loop.next_q = <<>>

BeforeFirstCall == op \in {"boot", "initializeStrategy"}

RememberedSelection ==
    [][op' = "strategy"
          => /\ prev_next_cell' = next_cell'
             /\ BeforeFirstCall
                   => /\ prev_next_cell = Cell(0, 0)
                      /\ oscillation_hint' <=> (next_cell' = Cell(0, 0))
                      /\ led2' <=> (next_cell' = Cell(0, 0))]_vars

\* the robot is in (0,0), cut off from the goal, and the call selected (0,0)
\* and signalled the hint
FirstCallWitness ==
    /\ AfterStrategy
    /\ robot_cell = Cell(0, 0)
    /\ values[Cell(0, 0)] = MAX_VALUE
    /\ next_cell = Cell(0, 0)
    /\ prev_next_cell = Cell(0, 0)
    /\ oscillation_hint
    /\ led2

(***************************************************************************)
(* C21.  Convergence of a run: on an unchanging maze, from a start cell at *)
(* finite flood distance d, with the robot at the returned target pose for *)
(* every further call, the k-th call finds the robot at distance           *)
(* d - (k - 1) and returns the centre of a cell at distance d - k, for     *)
(* k <= d; the d-th call returns the goal centre; every later call finds   *)
(* the robot in the goal cell and returns the goal centre again.           *)
(***************************************************************************)
OnRun == AfterStrategy /\ run.calls >= 1

RunConverges ==
    (OnRun /\ values[run.start] < MAX_VALUE)
        => LET d == values[run.start]
               k == run.calls
           IN  /\ k <= d => /\ values[robot_cell] = d - (k - 1)
                            /\ values[next_cell] = d - k
               /\ k > d => robot_cell = goal_cell
               /\ k >= d => /\ next_cell = goal_cell
                            /\ next_location.x_mu = CentreX(goal_cell)
                            /\ next_location.y_mu = CentreY(goal_cell)
               /\ next_location.x_mu = CentreX(next_cell)
               /\ next_location.y_mu = CentreY(next_cell)

\* a run of the reference build from a cell more than ten hops from the goal
\* has reached the goal and a later call was made there
RunWitness ==
    /\ OnRun
    /\ ReferenceBuild
    /\ values[run.start] > 10
    /\ values[run.start] < MAX_VALUE
    /\ run.calls > values[run.start]
    /\ robot_cell = goal_cell
    /\ next_cell = goal_cell

(***************************************************************************)
(* C22.  Intermediate location of calculateSpeed: in state OUT_XY_IN_THETA *)
(* the location passed to straightController is (prev.x, next.y) when the  *)
(* direction is North or South and (next.x, prev.y) when it is East or     *)
(* West, prev being prev_location as the call found it and next the        *)
(* next_location argument.                                                 *)
(***************************************************************************)
AfterStraightToAxis ==
    op = "calculateSpeed" /\ movement.currentState = "OUT_XY_IN_THETA"

IntermediateKeepsOtherAxis ==
    AfterStraightToAxis
        => /\ movement.direction \in {"North", "South"}
                 => /\ movement.intermediate_location.x_mu
                          = movement.entry_prev_location.x_mu
                    /\ movement.intermediate_location.y_mu
                          = movement.next_location.y_mu
           /\ movement.direction \in {"East", "West"}
                 => /\ movement.intermediate_location.x_mu
                          = movement.next_location.x_mu
                    /\ movement.intermediate_location.y_mu
                          = movement.entry_prev_location.y_mu

====
